---- MODULE Spec2Model ----
(***************************************************************************)
(* A model of src/src/saga.py: the Flag and Parameters value types, the    *)
(* Command token list and its execution, the three Executable levels       *)
(* (SAGA, Library, Tool) and the Output of a run.                          *)
(*                                                                         *)
(* A Python str is a sequence of one-character strings, so that            *)
(* startswith, upper and concatenation are computed and not assumed.       *)
(* An Optional[str] is the record [isNone, s].                             *)
(***************************************************************************)
EXTENDS Integers, Sequences, FiniteSets, TLC

VARIABLES saga, libs, tools, ret

vars == <<saga, libs, tools, ret>>

(***************************************************************************)
(* Bounds of the model.                                                    *)
(***************************************************************************)
\* Library and Tool objects a behaviour may create
MaxObjects == 2
\* length of a raw flag string given to Flag
MaxFlagLen == 4
\* keyword arguments of one Parameters(...) construction
MaxKwargs == 2
\* entries of the Parameters held by an Output
MaxOutParams == 3
\* names in one get_raster / get_vector request list
MaxRequest == 2

(***************************************************************************)
(* Python strings and values.                                              *)
(***************************************************************************)
None == [isNone |-> TRUE, s |-> <<>>]
Some(s) == [isNone |-> FALSE, s |-> s]

PyInt(n) == [isInt |-> TRUE, n |-> n, s |-> <<>>]
PyText(s) == [isInt |-> FALSE, n |-> 0, s |-> s]

\* str.startswith
StartsWith(s, p) == Len(s) >= Len(p) /\ SubSeq(s, 1, Len(p)) = p

\* str.upper, one character
UpperChar(c) ==
  CASE c = "e" -> "E"
    [] c = "g" -> "G"
    [] c = "m" -> "M"
    [] c = "o" -> "O"
    [] OTHER -> c

\* str.upper
Upper(s) == [i \in 1..Len(s) |-> UpperChar(s[i])]

Digit(d) == <<"0", "1", "2", "3", "4", "5", "6", "7", "8", "9">>[d + 1]

RECURSIVE NatStr(_)
NatStr(n) == IF n < 10 THEN <<Digit(n)>> ELSE NatStr(n \div 10) \o <<Digit(n % 10)>>

\* str(v) of an int or a str
PyStr(v) == IF v.isInt
            THEN (IF v.n < 0 THEN <<"-">> \o NatStr(0 - v.n) ELSE NatStr(v.n))
            ELSE v.s

\* ''.join(ss)
RECURSIVE Concat(_)
Concat(ss) == IF ss = <<>> THEN <<>> ELSE Head(ss) \o Concat(Tail(ss))

\* all sequences over S of length at most n
SeqsUpTo(S, n) == UNION {[1..k -> S] : k \in 0..n}

(***************************************************************************)
(* class SAGACMD: the validated path of the executable.                    *)
(***************************************************************************)
SAGACMD(saga_cmd_path) == [saga_cmd_path |-> saga_cmd_path]

SAGACMD_str(c) == c.saga_cmd_path

(***************************************************************************)
(* class Flag.                                                             *)
(***************************************************************************)
Flag(flag) == [flag |-> flag]

\* A plausible slip: the prefix is prepended whatever the raw value starts with.
Flag_str_always_prefix(f) ==
  IF f.flag.isNone THEN <<>> ELSE <<"-", "-">> \o f.flag.s

Flag_str(f) ==
  IF f.flag.isNone THEN <<>>
  ELSE IF ~StartsWith(f.flag.s, <<"-", "-">>) THEN Concat(<<<<"-", "-">> \o f.flag.s>>)
  ELSE f.flag.s

Flag_bool(f) == ~f.flag.isNone

(***************************************************************************)
(* class Parameters(dict): the mapping (items, in insertion order) and the *)
(* token list _params derived from it at construction.                     *)
(***************************************************************************)
\* '-{K}={v}'.format(K=k.upper(), v=v)
ParamToken(k, v) == <<"-">> \o Upper(k) \o <<"=">> \o v

\* A plausible slip: the key is rendered as given, not uppercased.
Parameters_init_no_upper(kwargs) ==
  LET items == [i \in 1..Len(kwargs) |-> <<kwargs[i][1], PyStr(kwargs[i][2])>>]
  IN [items |-> items,
      _params |-> [i \in 1..Len(items) |-> <<"-">> \o items[i][1] \o <<"=">> \o items[i][2]]]

Parameters_init(kwargs) ==
  LET items == [i \in 1..Len(kwargs) |-> <<kwargs[i][1], PyStr(kwargs[i][2])>>]
  IN [items |-> items,
      _params |-> [i \in 1..Len(items) |-> ParamToken(items[i][1], items[i][2])]]

Parameters_iter(p) == p._params

\* dict.__contains__ and dict.__getitem__ (inherited): by the stored key
Parameters_contains(p, k) == \E i \in 1..Len(p.items) : p.items[i][1] = k

Parameters_getitem(p, k) ==
  IF Parameters_contains(p, k)
  THEN Some(p.items[CHOOSE i \in 1..Len(p.items) : p.items[i][1] = k][2])
  ELSE None

(***************************************************************************)
(* class Command.  An argument is tagged with its Python type, which       *)
(* decides its truth value and its str().                                  *)
(***************************************************************************)
ArgSAGACMD(c) == [type |-> "SAGACMD", val |-> c]
ArgFlag(f) == [type |-> "Flag", val |-> f]
ArgLibrary(l) == [type |-> "Library", val |-> l]
ArgStr(s) == [type |-> "str", val |-> s]

\* bool(arg): SAGACMD and Library define neither __bool__ nor __len__
Truthy(arg) ==
  CASE arg.type = "SAGACMD" -> TRUE
    [] arg.type = "Flag" -> Flag_bool(arg.val)
    [] arg.type = "Library" -> TRUE
    [] arg.type = "str" -> arg.val # <<>>

\* str(arg)
Str(arg) ==
  CASE arg.type = "SAGACMD" -> SAGACMD_str(arg.val)
    [] arg.type = "Flag" -> Flag_str(arg.val)
    [] arg.type = "Library" -> arg.val.library
    [] arg.type = "str" -> arg.val

Command_init(args) ==
  LET kept == SelectSeq(args, Truthy)
  IN [args |-> [i \in 1..Len(kept) |-> Str(kept[i])]]

\* subprocess.run(args, capture_output=True, text=True, check=True)
Command_execute_check(c, proc) ==
  IF ~proc.spawned THEN [raised |-> TRUE, error |-> "OSError"]
  ELSE IF proc.returncode # 0 THEN [raised |-> TRUE, error |-> "CalledProcessError"]
  ELSE [raised |-> FALSE,
        completed |-> [args |-> c.args, returncode |-> proc.returncode,
                       stdout |-> proc.stdout, stderr |-> proc.stderr]]

\* subprocess.run(self.args, capture_output=True, text=True); proc is what the
\* operating system does with the argument vector
Command_execute(c, proc) ==
  IF ~proc.spawned THEN [raised |-> TRUE, error |-> "OSError"]
  ELSE [raised |-> FALSE,
        completed |-> [args |-> c.args, returncode |-> proc.returncode,
                       stdout |-> proc.stdout, stderr |-> proc.stderr]]

(***************************************************************************)
(* class Output.                                                           *)
(***************************************************************************)
Output_init(completed_process, parameters) ==
  [completed_process |-> completed_process,
   parameters |-> parameters,
   text |-> completed_process.stdout]

\* a request is one name (isStr) or a list of names
ReqStr(s) == [isStr |-> TRUE, s |-> s, l |-> <<>>]
ReqList(l) == [isStr |-> FALSE, s |-> <<>>, l |-> l]

\* k in parameters, for a list
InList(k, l) == \E j \in 1..Len(l) : l[j] = k

\* k in parameters, for a str: substring test
InStr(k, s) == \E a \in 0..(Len(s) - Len(k)) : SubSeq(s, a + 1, a + Len(k)) = k

Selected(o, names) ==
  SelectSeq(o.parameters.items, LAMBDA kv : InList(kv[1], names))

\* A plausible slip: a single name is not wrapped into a list, so that
\* `k in parameters` is a substring test.
Output_get_raster_no_wrap(o, parameters) ==
  LET sel == IF parameters.isStr
             THEN SelectSeq(o.parameters.items, LAMBDA kv : InStr(kv[1], parameters.s))
             ELSE Selected(o, parameters.l)
  IN [i \in 1..Len(sel) |-> [type |-> "Raster", path |-> sel[i][2]]]

Output_get_raster(o, parameters) ==
  LET names == IF parameters.isStr THEN <<parameters.s>> ELSE parameters.l
      sel == Selected(o, names)
  IN [i \in 1..Len(sel) |-> [type |-> "Raster", path |-> sel[i][2]]]

Output_get_vector(o, parameters) ==
  LET names == IF parameters.isStr THEN <<parameters.s>> ELSE parameters.l
      sel == Selected(o, names)
  IN [i \in 1..Len(sel) |-> [type |-> "Vector", path |-> sel[i][2]]]

(***************************************************************************)
(* The three Executable levels.  A Library or Tool object is named by its  *)
(* position in libs or tools; a Tool holds the position of its Library.    *)
(* No method mutates a Flag or a Parameters in place (every write rebinds  *)
(* the attribute to a new instance), so the instance a descent hands down  *)
(* is held here by value.                                                  *)
(***************************************************************************)
\* SAGA.__init__ with a validated path and a raw flag
SAGA_init(saga_cmd, flag) == [saga_cmd |-> saga_cmd, _flag |-> Flag(flag)]

\* Library.__init__, given a SAGACMD and a Flag instance (both kept as they are)
Library_init(library, saga_cmd, flag) ==
  [saga_cmd |-> saga_cmd, _flag |-> flag, library |-> library]

\* Tool.__init__, given a SAGACMD and a Flag instance (both kept as they are)
Tool_init(library, tool, saga_cmd, flag) ==
  [saga_cmd |-> saga_cmd, _flag |-> flag, library |-> library, tool |-> tool,
   parameters |-> Parameters_init(<<>>)]

SAGA_command(self) ==
  Command_init(<<ArgSAGACMD(self.saga_cmd), ArgFlag(self._flag)>>)

Library_command(self) ==
  Command_init(<<ArgSAGACMD(self.saga_cmd), ArgFlag(self._flag), ArgStr(self.library)>>)

Tool_command(self) ==
  Command_init(<<ArgSAGACMD(self.saga_cmd), ArgFlag(self._flag),
                 ArgLibrary(libs[self.library]), ArgStr(self.tool)>>
               \o [i \in 1..Len(Parameters_iter(self.parameters)) |->
                     ArgStr(Parameters_iter(self.parameters)[i])])

\* the object at a level, and the command it reports
Obj(level, i) ==
  CASE level = "SAGA" -> saga
    [] level = "Library" -> libs[i]
    [] level = "Tool" -> tools[i]

CommandOf(level, i) ==
  CASE level = "SAGA" -> SAGA_command(saga)
    [] level = "Library" -> Library_command(libs[i])
    [] level = "Tool" -> Tool_command(tools[i])

\* the objects that exist
Objects ==
  {<<"SAGA", 1>>} \cup {<<"Library", i>> : i \in 1..Len(libs)}
                  \cup {<<"Tool", i>> : i \in 1..Len(tools)}

(***************************************************************************)
(* Inputs.                                                                 *)
(***************************************************************************)
ExePath == <<"s">>
FlagRaws == {None, Some(<<"c">>)}
LibraryNames == {<<>>, <<"m">>}
ToolNames == {<<>>, <<"0">>}

KwargsOver(keys, values, n) ==
  {kw \in SeqsUpTo(keys \X values, n) :
     \A i, j \in 1..Len(kw) : i # j => kw[i][1] # kw[j][1]}

\* keyword arguments of set_params / run_command, in the order given
Kwargs == {<<>>, <<<<<<"g">>, PyInt(0)>>>>, <<<<<<"g">>, PyInt(0)>>, <<<<"e">>, PyText(<<"o">>)>>>>}

\* what the operating system does with an argument vector
NotSpawned == [spawned |-> FALSE, returncode |-> 0, stdout |-> <<>>, stderr |-> <<>>]
Exited(returncode, stdout, stderr) ==
  [spawned |-> TRUE, returncode |-> returncode, stdout |-> stdout, stderr |-> stderr]
Procs == {NotSpawned, Exited(0, <<"o">>, <<>>), Exited(1, <<>>, <<"e">>)}

\* the operand of `/`: a name, or an existing object of the next level
OperandStr(s) == [isStr |-> TRUE, s |-> s, ref |-> 0]
OperandObj(ref) == [isStr |-> FALSE, s |-> <<>>, ref |-> ref]

(***************************************************************************)
(* ret records the last call: what was called, on which object, and what   *)
(* it returned or raised.                                                  *)
(***************************************************************************)
Counts == [nlibs |-> Len(libs), ntools |-> Len(tools)]

\* the flag and the command of every object but one, as they are now
Others(level, self) ==
  [o \in Objects \ {<<level, self>>} |->
     [flag |-> Obj(o[1], o[2])._flag, command |-> CommandOf(o[1], o[2]).args]]

Returned(op, level, self, operand, resLevel, resRef) ==
  [op |-> op, level |-> level, self |-> self, operand |-> operand,
   result |-> [level |-> resLevel, ref |-> resRef], before |-> Counts,
   flag |-> Obj(level, self)._flag, spawned |-> 0]

FlagSetRet(level, self, flag) ==
  [op |-> "flag_set", level |-> level, self |-> self, raw |-> flag, spawned |-> 0,
   before |-> CommandOf(level, self).args,
   wasSet |-> Flag_bool(Obj(level, self)._flag),
   others |-> Others(level, self)]

FlagDelRet(level, self) ==
  LET after == ret.op = "flag_set" /\ ret.level = level /\ ret.self = self
  IN [op |-> "flag_del", level |-> level, self |-> self, afterSet |-> after,
      spawned |-> 0,
      before |-> IF after THEN ret.before ELSE <<>>,
      wasSet |-> after /\ ret.wasSet,
      others |-> Others(level, self)]

\* the child processes a call to subprocess.run started
Spawned(proc) == IF proc.spawned THEN 1 ELSE 0

RunRet(level, self, kwargs, before, proc, r, parameters) ==
  IF r.raised
  THEN [op |-> "run_command", level |-> level, self |-> self, kwargs |-> kwargs,
        before |-> before, proc |-> proc, spawned |-> Spawned(proc),
        raised |-> TRUE, error |-> r.error]
  ELSE [op |-> "run_command", level |-> level, self |-> self, kwargs |-> kwargs,
        before |-> before, proc |-> proc, spawned |-> Spawned(proc),
        raised |-> FALSE, output |-> Output_init(r.completed, parameters)]

(***************************************************************************)
(* SAGA                                                                    *)
(***************************************************************************)
SAGA_flag_set(flag) ==
  /\ saga' = [saga EXCEPT !._flag = Flag(flag)]
  /\ ret' = FlagSetRet("SAGA", 1, flag)
  /\ UNCHANGED <<libs, tools>>

SAGA_flag_del ==
  /\ saga' = [saga EXCEPT !._flag = Flag(None)]
  /\ ret' = FlagDelRet("SAGA", 1)
  /\ UNCHANGED <<libs, tools>>

\* A plausible slip: the flag is not handed down.
SAGA_get_library_no_flag(library) ==
  /\ Len(libs) + Len(tools) < MaxObjects
  /\ libs' = Append(libs, Library_init(library, saga.saga_cmd, Flag(None)))
  /\ ret' = Returned("get_library", "SAGA", 1, OperandStr(library), "Library", Len(libs) + 1)
  /\ UNCHANGED <<saga, tools>>

SAGA_get_library(library) ==
  /\ Len(libs) + Len(tools) < MaxObjects
  /\ libs' = Append(libs, Library_init(library, saga.saga_cmd, saga._flag))
  /\ ret' = Returned("get_library", "SAGA", 1, OperandStr(library), "Library", Len(libs) + 1)
  /\ UNCHANGED <<saga, tools>>

SAGA_truediv(library) ==
  IF library.isStr
  THEN /\ Len(libs) + Len(tools) < MaxObjects
       /\ libs' = Append(libs, Library_init(library.s, saga.saga_cmd, saga._flag))
       /\ ret' = Returned("truediv", "SAGA", 1, library, "Library", Len(libs) + 1)
       /\ UNCHANGED <<saga, tools>>
  ELSE /\ library.ref \in 1..Len(libs)
       /\ ret' = Returned("truediv", "SAGA", 1, library, "Library", library.ref)
       /\ UNCHANGED <<saga, libs, tools>>

SAGA_get_tool(library, tool) ==
  /\ Len(libs) + Len(tools) + 1 < MaxObjects
  /\ libs' = Append(libs, Library_init(library, saga.saga_cmd, saga._flag))
  /\ tools' = Append(tools, Tool_init(Len(libs) + 1, tool, saga.saga_cmd, saga._flag))
  /\ ret' = Returned("get_tool", "SAGA", 1, OperandStr(tool), "Tool", Len(tools) + 1)
  /\ UNCHANGED <<saga>>

SAGA_run_command(proc) ==
  /\ ret' = RunRet("SAGA", 1, <<>>, Parameters_init(<<>>), proc,
                   Command_execute(SAGA_command(saga), proc), Parameters_init(<<>>))
  /\ UNCHANGED <<saga, libs, tools>>

(***************************************************************************)
(* Library                                                                 *)
(***************************************************************************)
\* A plausible slip: the write is pushed down to the Tools of this Library.
Library_flag_set_pushed_down(i, flag) ==
  /\ i \in 1..Len(libs)
  /\ libs' = [libs EXCEPT ![i]._flag = Flag(flag)]
  /\ tools' = [t \in 1..Len(tools) |->
                 IF tools[t].library = i THEN [tools[t] EXCEPT !._flag = Flag(flag)]
                 ELSE tools[t]]
  /\ ret' = FlagSetRet("Library", i, flag)
  /\ UNCHANGED <<saga>>

Library_flag_set(i, flag) ==
  /\ i \in 1..Len(libs)
  /\ libs' = [libs EXCEPT ![i]._flag = Flag(flag)]
  /\ ret' = FlagSetRet("Library", i, flag)
  /\ UNCHANGED <<saga, tools>>

Library_flag_del(i) ==
  /\ i \in 1..Len(libs)
  /\ libs' = [libs EXCEPT ![i]._flag = Flag(None)]
  /\ ret' = FlagDelRet("Library", i)
  /\ UNCHANGED <<saga, tools>>

Library_get_tool(i, tool) ==
  /\ i \in 1..Len(libs)
  /\ Len(libs) + Len(tools) < MaxObjects
  /\ tools' = Append(tools, Tool_init(i, tool, libs[i].saga_cmd, libs[i]._flag))
  /\ ret' = Returned("get_tool", "Library", i, OperandStr(tool), "Tool", Len(tools) + 1)
  /\ UNCHANGED <<saga, libs>>

Library_truediv(i, tool) ==
  /\ i \in 1..Len(libs)
  /\ IF tool.isStr
     THEN /\ Len(libs) + Len(tools) < MaxObjects
          /\ tools' = Append(tools, Tool_init(i, tool.s, libs[i].saga_cmd, libs[i]._flag))
          /\ ret' = Returned("truediv", "Library", i, tool, "Tool", Len(tools) + 1)
          /\ UNCHANGED <<saga, libs>>
     ELSE /\ tool.ref \in 1..Len(tools)
          /\ ret' = Returned("truediv", "Library", i, tool, "Tool", tool.ref)
          /\ UNCHANGED <<saga, libs, tools>>

Library_run_command(i, proc) ==
  /\ i \in 1..Len(libs)
  /\ ret' = RunRet("Library", i, <<>>, Parameters_init(<<>>), proc,
                   Command_execute(Library_command(libs[i]), proc), Parameters_init(<<>>))
  /\ UNCHANGED <<saga, libs, tools>>

(***************************************************************************)
(* Tool                                                                    *)
(***************************************************************************)
Tool_flag_set(i, flag) ==
  /\ i \in 1..Len(tools)
  /\ tools' = [tools EXCEPT ![i]._flag = Flag(flag)]
  /\ ret' = FlagSetRet("Tool", i, flag)
  /\ UNCHANGED <<saga, libs>>

\* A plausible slip: the flag is cleared to the empty string, not to None.
Tool_flag_del_empty(i) ==
  /\ i \in 1..Len(tools)
  /\ tools' = [tools EXCEPT ![i]._flag = Flag(Some(<<>>))]
  /\ ret' = FlagDelRet("Tool", i)
  /\ UNCHANGED <<saga, libs>>

Tool_flag_del(i) ==
  /\ i \in 1..Len(tools)
  /\ tools' = [tools EXCEPT ![i]._flag = Flag(None)]
  /\ ret' = FlagDelRet("Tool", i)
  /\ UNCHANGED <<saga, libs>>

\* A plausible slip: the new values are merged into the mapping held (dict.update)
\* and the token list derived at construction is left as it was.
Tool_set_params_update(i, kwargs) ==
  /\ i \in 1..Len(tools)
  /\ LET old == tools[i].parameters
         new == Parameters_init(kwargs)
         kept == [j \in 1..Len(old.items) |->
                    IF Parameters_contains(new, old.items[j][1])
                    THEN <<old.items[j][1], Parameters_getitem(new, old.items[j][1]).s>>
                    ELSE old.items[j]]
         added == SelectSeq(new.items, LAMBDA kv : ~Parameters_contains(old, kv[1]))
     IN tools' = [tools EXCEPT ![i].parameters =
                    [items |-> kept \o added, _params |-> old._params]]
  /\ ret' = [op |-> "set_params", level |-> "Tool", self |-> i, kwargs |-> kwargs,
             spawned |-> 0]
  /\ UNCHANGED <<saga, libs>>

Tool_set_params(i, kwargs) ==
  /\ i \in 1..Len(tools)
  /\ tools' = [tools EXCEPT ![i].parameters = Parameters_init(kwargs)]
  /\ ret' = [op |-> "set_params", level |-> "Tool", self |-> i, kwargs |-> kwargs,
             spawned |-> 0]
  /\ UNCHANGED <<saga, libs>>

\* A plausible slip: set_params is called whether or not values were given.
Tool_run_command_always_set(i, kwargs, proc) ==
  /\ i \in 1..Len(tools)
  /\ LET self == [tools[i] EXCEPT !.parameters = Parameters_init(kwargs)]
     IN /\ tools' = [tools EXCEPT ![i] = self]
        /\ ret' = RunRet("Tool", i, kwargs, tools[i].parameters, proc,
                         Command_execute(Tool_command(self), proc), self.parameters)
  /\ UNCHANGED <<saga, libs>>

\* Tool.run_command, and Tool.__call__, which only delegates to it
Tool_run_command(i, kwargs, proc) ==
  /\ i \in 1..Len(tools)
  /\ LET self == IF kwargs # <<>>
                 THEN [tools[i] EXCEPT !.parameters = Parameters_init(kwargs)]
                 ELSE tools[i]
     IN /\ tools' = [tools EXCEPT ![i] = self]
        /\ ret' = RunRet("Tool", i, kwargs, tools[i].parameters, proc,
                         Command_execute(Tool_command(self), proc), self.parameters)
  /\ UNCHANGED <<saga, libs>>

(***************************************************************************)
(* X.command.execute() on any level: the Command is executed directly.     *)
(***************************************************************************)
Execute(level, i, proc) ==
  /\ <<level, i>> \in Objects
  /\ LET r == Command_execute(CommandOf(level, i), proc)
     IN ret' = IF r.raised
               THEN [op |-> "execute", level |-> level, self |-> i, proc |-> proc,
                     spawned |-> Spawned(proc),
                     raised |-> TRUE, error |-> r.error]
               ELSE [op |-> "execute", level |-> level, self |-> i, proc |-> proc,
                     spawned |-> Spawned(proc),
                     raised |-> FALSE, completed |-> r.completed]
  /\ UNCHANGED <<saga, libs, tools>>

(***************************************************************************)
(* The program: one SAGA object, constructed with any flag, and every call *)
(* a caller can make on it and on the objects descended from it.           *)
(***************************************************************************)
Init ==
  /\ saga \in {SAGA_init(SAGACMD(ExePath), flag) : flag \in FlagRaws}
  /\ libs = <<>>
  /\ tools = <<>>
  /\ ret = [op |-> "init", spawned |-> 0]

Next ==
  \/ \E flag \in FlagRaws : SAGA_flag_set(flag)
  \/ SAGA_flag_del
  \/ \E library \in LibraryNames : SAGA_get_library(library)
  \/ \E library \in LibraryNames : SAGA_truediv(OperandStr(library))
  \/ \E ref \in 1..MaxObjects : SAGA_truediv(OperandObj(ref))
  \/ \E library \in LibraryNames, tool \in ToolNames : SAGA_get_tool(library, tool)
  \/ \E proc \in Procs : SAGA_run_command(proc)
  \/ \E i \in 1..MaxObjects, flag \in FlagRaws : Library_flag_set(i, flag)
  \/ \E i \in 1..MaxObjects : Library_flag_del(i)
  \/ \E i \in 1..MaxObjects, tool \in ToolNames : Library_get_tool(i, tool)
  \/ \E i \in 1..MaxObjects, tool \in ToolNames : Library_truediv(i, OperandStr(tool))
  \/ \E i \in 1..MaxObjects, ref \in 1..MaxObjects : Library_truediv(i, OperandObj(ref))
  \/ \E i \in 1..MaxObjects, proc \in Procs : Library_run_command(i, proc)
  \/ \E i \in 1..MaxObjects, flag \in FlagRaws : Tool_flag_set(i, flag)
  \/ \E i \in 1..MaxObjects : Tool_flag_del(i)
  \/ \E i \in 1..MaxObjects, kwargs \in Kwargs : Tool_set_params(i, kwargs)
  \/ \E i \in 1..MaxObjects, kwargs \in Kwargs, proc \in Procs : Tool_run_command(i, kwargs, proc)
  \/ \E level \in {"SAGA", "Library", "Tool"}, i \in 1..MaxObjects, proc \in Procs :
       Execute(level, i, proc)

Spec == Init /\ [][Next]_vars

(***************************************************************************)
(* Flag alone: every raw value up to MaxFlagLen characters is given to     *)
(* Flag, and to a SAGA constructed with it, and what they report is read.  *)
(***************************************************************************)
FlagAlphabet == {"-", "c", "="}
FlagInputs == {None} \cup {Some(s) : s \in SeqsUpTo(FlagAlphabet, MaxFlagLen)}

Idle == SAGA_init(SAGACMD(ExePath), None)

InitFlag ==
  /\ saga = Idle
  /\ libs = <<>>
  /\ tools = <<>>
  /\ ret \in {[op |-> "arg", spawned |-> 0, raw |-> raw] : raw \in FlagInputs}

\* str(Flag(raw)), bool(Flag(raw)) and SAGA(saga_cmd, raw).command
Flag_read ==
  /\ ret.op = "arg"
  /\ ret' = [op |-> "Flag", spawned |-> 0, raw |-> ret.raw,
             str |-> Flag_str(Flag(ret.raw)),
             bool |-> Flag_bool(Flag(ret.raw)),
             command |-> SAGA_command(SAGA_init(SAGACMD(ExePath), ret.raw)).args]
  /\ UNCHANGED <<saga, libs, tools>>

NextFlag == Flag_read

SpecFlag == InitFlag /\ [][NextFlag]_vars

(***************************************************************************)
(* Parameters alone: every keyword-argument set over ParamKeys and         *)
(* ParamValues up to MaxKwargs arguments is given to Parameters.           *)
(***************************************************************************)
ParamKeys == {<<"e">>, <<"E">>, <<"g", "m">>}
ParamValues == {PyInt(12), PyInt(-3), PyText(<<>>), PyText(<<"o">>)}
ParamInputs == KwargsOver(ParamKeys, ParamValues, MaxKwargs)

InitParams ==
  /\ saga = Idle
  /\ libs = <<>>
  /\ tools = <<>>
  /\ ret \in {[op |-> "arg", spawned |-> 0, kwargs |-> kwargs] : kwargs \in ParamInputs}

\* p = Parameters(**kwargs); list(p)
Parameters_read ==
  /\ ret.op = "arg"
  /\ ret' = [op |-> "Parameters", spawned |-> 0, kwargs |-> ret.kwargs,
             parameters |-> Parameters_init(ret.kwargs),
             tokens |-> Parameters_iter(Parameters_init(ret.kwargs))]
  /\ UNCHANGED <<saga, libs, tools>>

NextParams == Parameters_read

SpecParams == InitParams /\ [][NextParams]_vars

(***************************************************************************)
(* Output alone: an Output holding any Parameters over OutKeys is asked    *)
(* for the handles of one name or of a list of names.                      *)
(***************************************************************************)
OutKeys == {<<"e">>, <<"g">>, <<"e", "g">>}
OutValues == {PyText(<<"o">>), PyInt(0)}
OutNames == OutKeys \cup {<<"x">>}
OutKwargs == KwargsOver(OutKeys, OutValues, MaxOutParams)
Requests == {ReqStr(n) : n \in OutNames} \cup {ReqList(l) : l \in SeqsUpTo(OutNames, MaxRequest)}

InitOutput ==
  /\ saga = Idle
  /\ libs = <<>>
  /\ tools = <<>>
  /\ ret \in {[op |-> "arg", spawned |-> 0,
               output |-> Output_init(
                            Command_execute(SAGA_command(Idle), Exited(0, <<"o">>, <<>>)).completed,
                            Parameters_init(kwargs)),
               request |-> request] : kwargs \in OutKwargs, request \in Requests}

Output_get_raster_call ==
  /\ ret.op = "arg"
  /\ ret' = [op |-> "get_raster", spawned |-> 0, output |-> ret.output,
             request |-> ret.request,
             result |-> Output_get_raster(ret.output, ret.request)]
  /\ UNCHANGED <<saga, libs, tools>>

Output_get_vector_call ==
  /\ ret.op = "arg"
  /\ ret' = [op |-> "get_vector", spawned |-> 0, output |-> ret.output,
             request |-> ret.request,
             result |-> Output_get_vector(ret.output, ret.request)]
  /\ UNCHANGED <<saga, libs, tools>>

NextOutput ==
  \/ Output_get_raster_call
  \/ Output_get_vector_call

SpecOutput == InitOutput /\ [][NextOutput]_vars

(***************************************************************************)
(* What the claims expect, stated from the token formats and not from the  *)
(* operators above.                                                        *)
(***************************************************************************)
Dashes == <<"-", "-">>

\* the flag token a Command is expected to hold for a Flag: none when unset
ExpectedFlagTokens(f) ==
  IF f.flag.isNone THEN <<>>
  ELSE IF StartsWith(f.flag.s, Dashes) THEN <<f.flag.s>>
  ELSE <<Dashes \o f.flag.s>>

\* -<KEY_UPPERCASED>=<value>, one per entry of the mapping, in its order
ExpectedParamTokens(p) ==
  [j \in 1..Len(p.items) |-> <<"-">> \o Upper(p.items[j][1]) \o <<"=">> \o p.items[j][2]]

IsDescent == ret.op \in {"get_library", "get_tool", "truediv"}

\* the object a descent returned did not exist before it
IsNew(result) ==
  IF result.level = "Library" THEN result.ref > ret.before.nlibs
  ELSE result.ref > ret.before.ntools

----------------------------------------------------------------------------
\* C1 (as stated): at every moment the command of every Operation is the
\* executable path, the current flag token if the flag is set, the module
\* name, the operation name, and the tokens of the current Parameter Set in
\* insertion order.
C1_CommandIsLatestState ==
  \A i \in 1..Len(tools) :
    Tool_command(tools[i]).args =
      <<ExePath>> \o ExpectedFlagTokens(tools[i]._flag)
                  \o <<libs[tools[i].library].library>> \o <<tools[i].tool>>
                  \o ExpectedParamTokens(tools[i].parameters)

\* C1 (amended): the same, with the operation name present only when it is
\* not the empty string.
C1_CommandIsLatestStateNamed ==
  \A i \in 1..Len(tools) :
    Tool_command(tools[i]).args =
      <<ExePath>> \o ExpectedFlagTokens(tools[i]._flag)
                  \o <<libs[tools[i].library].library>>
                  \o (IF tools[i].tool = <<>> THEN <<>> ELSE <<tools[i].tool>>)
                  \o ExpectedParamTokens(tools[i].parameters)

\* C1 witness: an Operation whose flag was written and then cleared after its
\* parameters were configured with two values.
C1_Reconfigured ==
  /\ ret.op = "flag_del" /\ ret.level = "Tool" /\ ret.afterSet
  /\ Len(tools[ret.self].parameters.items) = 2
  /\ tools[ret.self].tool # <<>>

\* C2: no command of any Program, Module or Operation holds an empty token.
C2_NoEmptyToken ==
  \A o \in Objects :
    \A k \in 1..Len(CommandOf(o[1], o[2]).args) : CommandOf(o[1], o[2]).args[k] # <<>>

\* C3: an object made by a descent starts with the flag its ancestor held at
\* that moment, and a flag write or clear on one object leaves the flag and
\* the command of every other object as they were.
C3_FlagIndependent ==
  /\ (IsDescent /\ IsNew(ret.result)) =>
       /\ Obj(ret.result.level, ret.result.ref)._flag = ret.flag
       /\ \A i \in (ret.before.nlibs + 1)..Len(libs) : libs[i]._flag = ret.flag
  /\ ret.op \in {"flag_set", "flag_del"} =>
       \A o \in DOMAIN ret.others :
         /\ Obj(o[1], o[2])._flag = ret.others[o].flag
         /\ CommandOf(o[1], o[2]).args = ret.others[o].command

\* C3 witness: the flag of a Module was written after an Operation descended
\* from it, and the two now differ.
C3_AncestorRewritten ==
  /\ ret.op = "flag_set" /\ ret.level = "Library"
  /\ \E t \in 1..Len(tools) :
       tools[t].library = ret.self /\ tools[t]._flag # libs[ret.self]._flag

\* C4 (as stated): a flag write followed by a clear on the same object leaves
\* its command as it was before the write, whatever flag it held then.
C4_SetClearRestores ==
  (ret.op = "flag_del" /\ ret.afterSet) =>
    CommandOf(ret.level, ret.self).args = ret.before

\* the tokens without the one at position k
RemoveAt(seq, k) == SubSeq(seq, 1, k - 1) \o SubSeq(seq, k + 1, Len(seq))

\* C4 (amended): a flag write followed by a clear leaves the command without
\* any flag token; that is the command before the write only when the object
\* held no flag then, and that command less its flag token otherwise.
C4_SetClearUnsets ==
  (ret.op = "flag_del" /\ ret.afterSet) =>
    CommandOf(ret.level, ret.self).args =
      (IF ret.wasSet THEN RemoveAt(ret.before, 2) ELSE ret.before)

\* C4 witness: an Operation that held no flag had one written and cleared.
C4_SetThenCleared ==
  ret.op = "flag_del" /\ ret.afterSet /\ ~ret.wasSet /\ ret.level = "Tool"

CarriesAncestor ==
  /\ Obj(ret.result.level, ret.result.ref).saga_cmd = Obj(ret.level, ret.self).saga_cmd
  /\ Obj(ret.result.level, ret.result.ref)._flag = Obj(ret.level, ret.self)._flag

\* C5 (as stated): every descent, whatever the operand of `/`, spawns no
\* process and returns a new object holding the ancestor's path handle and
\* the ancestor's current flag.
C5_DescentReturnsNew ==
  IsDescent => (ret.spawned = 0 /\ IsNew(ret.result) /\ CarriesAncestor)

\* C5 (amended): that holds of every descent by name; `/` with an existing
\* Library or Tool as operand spawns no process, creates nothing and returns
\* the operand itself.
C5_DescentByNameReturnsNew ==
  IsDescent =>
    /\ ret.spawned = 0
    /\ IF ret.operand.isStr
       THEN IsNew(ret.result) /\ CarriesAncestor
       ELSE /\ ret.result.ref = ret.operand.ref
            /\ ret.before = Counts

\* C5 witness: a Module was obtained by name from a Program whose flag is set.
C5_DescendedWithFlag ==
  /\ ret.op = "get_library" /\ Flag_bool(saga._flag)
  /\ libs[ret.result.ref].library # <<>>

C7_FlagCanonical ==
  ret.op = "Flag" =>
    /\ ret.raw.isNone => ret.str = <<>>
    /\ (~ret.raw.isNone /\ StartsWith(ret.raw.s, Dashes)) => ret.str = ret.raw.s
    /\ (~ret.raw.isNone /\ ~StartsWith(ret.raw.s, Dashes) /\ ret.raw.s # <<>>) =>
         ret.str = Dashes \o ret.raw.s
    /\ ret.bool <=> ~ret.raw.isNone
    /\ IF ret.raw.isNone THEN ret.command = <<ExePath>>
       ELSE ret.command = <<ExePath, ret.str>>

\* C7 witness: a raw value that already starts with "--".
C7_Prefixed == ret.op = "Flag" /\ ret.raw = Some(<<"-", "-", "c">>)

\* the positions of the entries of an Output's Parameter Set whose key is one
\* of the names asked for, and the k-th of them in insertion order
Asked(request) ==
  IF request.isStr THEN {request.s} ELSE {request.l[j] : j \in 1..Len(request.l)}

Matching(o, request) ==
  {j \in 1..Len(o.parameters.items) : o.parameters.items[j][1] \in Asked(request)}

Nth(J, k) == CHOOSE j \in J : Cardinality({i \in J : i <= j}) = k

\* C8: get_raster and get_vector return one handle per entry whose key was
\* asked for, wrapping the entry's stored string, in the insertion order of the
\* Parameter Set; a name that matches no entry adds nothing.
C8_HandlesInInsertionOrder ==
  ret.op \in {"get_raster", "get_vector"} =>
    LET J == Matching(ret.output, ret.request)
    IN /\ Len(ret.result) = Cardinality(J)
       /\ \A k \in 1..Len(ret.result) :
            /\ ret.result[k].path = ret.output.parameters.items[Nth(J, k)][2]
            /\ ret.result[k].type = (IF ret.op = "get_raster" THEN "Raster" ELSE "Vector")

\* C8 witness: two names asked for in the order opposite to their insertion,
\* with an entry between them that was not asked for.
C8_AskedInReverse ==
  /\ ret.op = "get_raster"
  /\ ret.request = ReqList(<<<<"g">>, <<"e">>>>)
  /\ Len(ret.output.parameters.items) = 3
  /\ ret.output.parameters.items[1][1] = <<"e">>
  /\ ret.output.parameters.items[3][1] = <<"g">>
  /\ Len(ret.result) = 2

\* C9: a run or a direct execution whose child process was spawned returns a
\* result for every exit status, with the status and the captured streams as
\* the process left them; an error is raised only when nothing was spawned.
C9_ExitStatusIsData ==
  ret.op \in {"run_command", "execute"} =>
    LET completed == IF ret.op = "execute" THEN ret.completed
                     ELSE ret.output.completed_process
    IN /\ ret.proc.spawned =>
            /\ ~ret.raised
            /\ completed.returncode = ret.proc.returncode
            /\ completed.stdout = ret.proc.stdout
            /\ completed.stderr = ret.proc.stderr
            /\ ret.op = "run_command" => ret.output.text = ret.proc.stdout
       /\ ret.raised => ~ret.proc.spawned

\* C9 witness: a run on an Operation whose process exited with a non-zero status.
C9_NonZeroExit ==
  /\ ret.op = "run_command" /\ ret.level = "Tool"
  /\ ret.proc.spawned /\ ret.proc.returncode # 0 /\ ~ret.raised

Keys(items) == [j \in 1..Len(items) |-> items[j][1]]

\* C10: run on an Operation with no named values leaves its Parameter Set as it
\* was, and the executed command and the returned Output carry it; run with
\* named values leaves a Parameter Set with exactly the keys given.
C10_RunKeepsParameters ==
  (ret.op = "run_command" /\ ret.level = "Tool") =>
    LET self == tools[ret.self]
    IN IF ret.kwargs = <<>>
       THEN /\ self.parameters = ret.before
            /\ ~ret.raised =>
                 /\ ret.output.parameters = ret.before
                 /\ ret.output.completed_process.args =
                      Tool_command([self EXCEPT !.parameters = ret.before]).args
       ELSE /\ Keys(self.parameters.items) = Keys(ret.kwargs)
            /\ Len(Parameters_iter(self.parameters)) = Len(ret.kwargs)
            /\ ~ret.raised =>
                 /\ ret.output.parameters = self.parameters
                 /\ ret.output.completed_process.args = Tool_command(self).args

\* C10 witness: a run with no named values on an Operation configured before.
C10_RunWithoutValues ==
  /\ ret.op = "run_command" /\ ret.level = "Tool" /\ ret.kwargs = <<>>
  /\ ~ret.raised
  /\ Len(ret.before.items) > 0
  /\ Len(ret.output.parameters.items) > 0

====
